---- MODULE Spec2Model ----
(***************************************************************************)
(* Model of tools/template.py of the Open Agent System: one invocation of  *)
(* the command-line tool, from the module-level initialisation of DEBUG to *)
(* the exit of the process.                                                *)
(*                                                                         *)
(* Strings are sequences of one-character strings, so that formatting,     *)
(* splitting and counting are computed and not assumed.  File content is   *)
(* a sequence of bytes (numbers), decoded as UTF-8 into code points.       *)
(* The file system and the standard streams are the environment: every    *)
(* call into them picks one of the outcomes the call can have.             *)
(***************************************************************************)
EXTENDS Integers, Sequences, FiniteSets, TLC

\* ------------------------------------------------------------------ bounds
\* longest command line (number of arguments after the program name)
MaxArgs == 4
\* longest file (in bytes) of SpecAnalyze
MaxLen == 3
\* longest input path (in characters) of SpecAnalyze
MaxPath == 2

\* ------------------------------------------------------------- strings
None == <<>>
Some(x) == <<x>>

RECURSIVE SeqsUpTo(_, _)
SeqsUpTo(S, n) ==
    IF n = 0 THEN {<<>>}
    ELSE LET shorter == SeqsUpTo(S, n - 1)
         IN  shorter \cup {Append(s, x) : s \in {t \in shorter : Len(t) = n - 1}, x \in S}

RECURSIVE Join(_, _)
\* sep.join(parts)
Join(sep, parts) ==
    IF parts = <<>> THEN <<>>
    ELSE IF Len(parts) = 1 THEN parts[1]
    ELSE parts[1] \o sep \o Join(sep, Tail(parts))

RECURSIVE Count(_, _)
\* s.count(c)
Count(s, c) ==
    IF s = <<>> THEN 0
    ELSE (IF s[1] = c THEN 1 ELSE 0) + Count(Tail(s), c)

Digit(d) == <<"0", "1", "2", "3", "4", "5", "6", "7", "8", "9">>[d + 1]

RECURSIVE IntStr(_)
\* str(n) of a non-negative integer
IntStr(n) == IF n < 10 THEN <<Digit(n)>> ELSE Append(IntStr(n \div 10), Digit(n % 10))

\* ------------------------------------------------------ the command line
\* The arguments the model draws command lines from: every option of the
\* parser by its short name, an option the parser does not know, and three
\* plain words (two of them are used as file names, "text" also as the one
\* non-default format; "xml" is not a format).
OptVerbose == <<"-", "v">>
OptFormat == <<"-", "f">>
OptOutput == <<"-", "o">>
OptHelp == <<"-", "h">>
OptUnknown == <<"-", "x">>
WordText == <<"t", "e", "x", "t">>
WordJson == <<"j", "s", "o", "n">>
WordXml == <<"x", "m", "l">>
WordNl == <<"a", "\n", "b">>

Tokens == {OptVerbose, OptFormat, OptOutput, OptHelp, OptUnknown, WordText, WordXml, WordNl}
ArgLists == SeqsUpTo(Tokens, MaxArgs)

\* add_argument calls of main: the option strings of the parser
OptionStrings == {OptVerbose, OptFormat, OptOutput, OptHelp}
\* choices=["json", "text"]
FormatChoices == {WordJson, WordText}

\* argparse's _parse_optional: does the argument look like an option?
IsOptionLike(tok) ==
    /\ Len(tok) > 0
    /\ tok[1] = "-"
    /\ \/ tok \in OptionStrings
       \/ Len(tok) > 1 /\ Count(tok, " ") = 0

\* the namespace before any argument is read: the defaults of add_argument
DefaultNamespace ==
    [input_file |-> None, output |-> None, format |-> WordJson, verbose |-> FALSE]

ParseOk(ns) == [kind |-> "ok", code |-> 0, ns |-> ns]
\* the help action: prints the help and raises SystemExit(0)
ParseHelp == [kind |-> "help", code |-> 0, ns |-> DefaultNamespace]
\* parser.error(): prints usage and message to stderr and raises SystemExit(2)
ParseError == [kind |-> "error", code |-> 2, ns |-> DefaultNamespace]

RECURSIVE ParseFrom(_, _, _, _)
\* argparse's loop over the arguments from index i: ns is the namespace so
\* far, extras is TRUE when an argument was set aside as unrecognized
ParseFrom(argv, i, ns, extras) ==
    IF i > Len(argv) THEN
        IF ns.input_file = None THEN ParseError      \* required argument missing
        ELSE IF extras THEN ParseError               \* unrecognized arguments
        ELSE ParseOk(ns)
    ELSE LET tok == argv[i] IN
        IF ~IsOptionLike(tok) THEN
            IF ns.input_file = None
            THEN ParseFrom(argv, i + 1, [ns EXCEPT !.input_file = Some(tok)], extras)
            ELSE ParseFrom(argv, i + 1, ns, TRUE)
        ELSE IF tok = OptHelp THEN ParseHelp
        ELSE IF tok = OptVerbose THEN ParseFrom(argv, i + 1, [ns EXCEPT !.verbose = TRUE], extras)
        ELSE IF tok \in {OptFormat, OptOutput} THEN
            IF i + 1 > Len(argv) \/ IsOptionLike(argv[i + 1]) THEN ParseError  \* expected one argument
            ELSE IF tok = OptOutput
                 THEN ParseFrom(argv, i + 2, [ns EXCEPT !.output = Some(argv[i + 1])], extras)
            ELSE IF argv[i + 1] \notin FormatChoices THEN ParseError       \* invalid choice
            ELSE ParseFrom(argv, i + 2, [ns EXCEPT !.format = argv[i + 1]], extras)
        ELSE ParseFrom(argv, i + 1, ns, TRUE)        \* unknown option

\* parser.parse_args()
parse_args(argv) == ParseFrom(argv, 1, DefaultNamespace, FALSE)

\* ------------------------------------------------------- file content
\* The bytes files are made of: a, space, LF, CR, FF and the two bytes of
\* the UTF-8 form of U+00E9 (each of them alone is not valid UTF-8).
Bytes == {97, 32, 10, 13, 12, 195, 169}

DecodeError == [ok |-> FALSE, text |-> <<>>]
Decoded(t) == [ok |-> TRUE, text |-> t]

RECURSIVE Utf8Decode(_)
\* bytes.decode("utf-8"), strict, for bytes below 0xE0 (one- and two-byte forms)
Utf8Decode(bs) ==
    IF bs = <<>> THEN Decoded(<<>>)
    ELSE IF bs[1] < 128 THEN
        LET rest == Utf8Decode(Tail(bs))
        IN  IF rest.ok THEN Decoded(<<bs[1]>> \o rest.text) ELSE DecodeError
    ELSE IF bs[1] >= 194 /\ bs[1] < 224 /\ Len(bs) >= 2 /\ bs[2] >= 128 /\ bs[2] < 192 THEN
        LET rest == Utf8Decode(Tail(Tail(bs)))
        IN  IF rest.ok THEN Decoded(<<(bs[1] - 192) * 64 + (bs[2] - 128)>> \o rest.text)
            ELSE DecodeError
    ELSE DecodeError

RECURSIVE TranslateNewlines(_)
\* open(..., newline=None), the default of Path.read_text: on input "\r\n"
\* and "\r" are translated into "\n"
TranslateNewlines(t) ==
    IF t = <<>> THEN <<>>
    ELSE IF t[1] = 13 THEN
        IF Len(t) >= 2 /\ t[2] = 10 THEN <<10>> \o TranslateNewlines(Tail(Tail(t)))
        ELSE <<10>> \o TranslateNewlines(Tail(t))
    ELSE <<t[1]>> \o TranslateNewlines(Tail(t))

\* input_path.read_text(encoding="utf-8") of a file holding the bytes bs
ReadText(bs) ==
    LET d == Utf8Decode(bs)
    IN  IF d.ok THEN Decoded(TranslateNewlines(d.text)) ELSE DecodeError

\* the line boundaries of str.splitlines
LineBoundaries == {10, 11, 12, 13, 28, 29, 30, 133, 8232, 8233}
\* the characters str.isspace holds of (str.split() splits at them)
Whitespace == (9..13) \cup (28..32) \cup {133, 160, 5760} \cup (8192..8202)
                \cup {8232, 8233, 8239, 8287, 12288}

RECURSIVE SplitLinesFrom(_, _)
\* cur is the line being read
SplitLinesFrom(t, cur) ==
    IF t = <<>> THEN (IF cur = <<>> THEN <<>> ELSE <<cur>>)
    ELSE IF t[1] = 13 /\ Len(t) >= 2 /\ t[2] = 10 THEN <<cur>> \o SplitLinesFrom(Tail(Tail(t)), <<>>)
    ELSE IF t[1] \in LineBoundaries THEN <<cur>> \o SplitLinesFrom(Tail(t), <<>>)
    ELSE SplitLinesFrom(Tail(t), Append(cur, t[1]))

\* content.splitlines()
splitlines(t) == SplitLinesFrom(t, <<>>)

RECURSIVE SplitFrom(_, _)
SplitFrom(t, cur) ==
    IF t = <<>> THEN (IF cur = <<>> THEN <<>> ELSE <<cur>>)
    ELSE IF t[1] \in Whitespace THEN
        (IF cur = <<>> THEN <<>> ELSE <<cur>>) \o SplitFrom(Tail(t), <<>>)
    ELSE SplitFrom(Tail(t), Append(cur, t[1]))

\* content.split()
split(t) == SplitFrom(t, <<>>)

\* ------------------------------------------------------ the result record
StrVal(s) == [t |-> "str", s |-> s, n |-> 0]
IntVal(n) == [t |-> "int", s |-> <<>>, n |-> n]

KeyFile == <<"f", "i", "l", "e">>
KeyLines == <<"l", "i", "n", "e", "s">>
KeyWords == <<"w", "o", "r", "d", "s">>
KeyCharacters == <<"c", "h", "a", "r", "a", "c", "t", "e", "r", "s">>
KeyEncoding == <<"e", "n", "c", "o", "d", "i", "n", "g">>
KeyStatus == <<"s", "t", "a", "t", "u", "s">>
Utf8Name == <<"u", "t", "f", "-", "8">>
Success == <<"s", "u", "c", "c", "e", "s", "s">>

\* a dict is the sequence of its items, in insertion order
Get(d, key) == d[CHOOSE i \in DOMAIN d : d[i][1] = key][2]

\* the result dict process_file builds from the path and the text it read
AnalysisResult(input_path, content) ==
    << <<KeyFile, StrVal(input_path)>>,
       <<KeyLines, IntVal(Len(splitlines(content)))>>,
       <<KeyWords, IntVal(Len(split(content)))>>,
       <<KeyCharacters, IntVal(Len(content))>>,
       <<KeyEncoding, StrVal(Utf8Name)>>,
       <<KeyStatus, StrVal(Success)>> >>

\* str(value), as an f-string formats it
Str(v) == IF v.t = "int" THEN IntStr(v.n) ELSE v.s

\* output_text(data)
output_text(data) ==
    Join(<<"\n">>, [i \in DOMAIN data |-> data[i][1] \o <<":", " ">> \o Str(data[i][2])])

RECURSIVE JsonEscape(_)
\* the escapes of json.dumps(..., ensure_ascii=False) inside a string
JsonEscape(s) ==
    IF s = <<>> THEN <<>>
    ELSE (CASE s[1] = "\"" -> <<"\\", "\"">>
            [] s[1] = "\\" -> <<"\\", "\\">>
            [] s[1] = "\n" -> <<"\\", "n">>
            [] s[1] = "\r" -> <<"\\", "r">>
            [] s[1] = "\t" -> <<"\\", "t">>
            [] s[1] = "\f" -> <<"\\", "f">>
            [] OTHER -> <<s[1]>>) \o JsonEscape(Tail(s))

JsonStr(s) == <<"\"">> \o JsonEscape(s) \o <<"\"">>
JsonVal(v) == IF v.t = "int" THEN IntStr(v.n) ELSE JsonStr(v.s)

\* output_json(data): json.dumps(data, indent=2, ensure_ascii=False)
output_json(data) ==
    IF data = <<>> THEN <<"{", "}">>
    ELSE <<"{", "\n">>
         \o Join(<<",", "\n">>,
                 [i \in DOMAIN data |-> <<" ", " ">> \o JsonStr(data[i][1]) \o <<":", " ">> \o JsonVal(data[i][2])])
         \o <<"\n", "}">>

\* ------------------------------------------------------------ the state
VARIABLES
    argv,       \* sys.argv[1:]
    env,        \* os.environ.get("OPEN_AGENT_DEBUG"): None when unset
    DEBUG,      \* the module's global
    pc,         \* the statement of main about to run
    args,       \* the namespace parse_args returned
    exists,     \* what args.input_file.exists() did: "?" before the call
    is_file,    \* what args.input_file.is_file() returned: "?" before the call
    result,     \* the dict process_file returned
    output,     \* the rendered text
    exc,        \* the exception raised inside the try block, None when there is none
    stdout,     \* the characters written to standard output
    stderr,     \* the lines written to standard error
    outFile,    \* the file at the path --output names, None when there is none
    outFile0,   \* that file when the process started
    fileRead,   \* the bytes the read of the input file found, None before it
    io,         \* the reads and writes of main so far, in order
    status,     \* "running", or how main ended: "returned", "SystemExit", "raised"
    exitCode    \* the exit code of the process once main has ended

vars == <<argv, env, DEBUG, pc, args, exists, is_file, result, output, exc,
          stdout, stderr, outFile, outFile0, fileRead, io, status, exitCode>>

\* ------------------------------------------------------------- logging
Line(level, msg, arg) == [level |-> level, msg |-> msg, arg |-> arg]

\* log_debug(message): what it adds to the error stream
log_debug(debug, msg, arg) == IF debug THEN <<Line("DEBUG", msg, arg)>> ELSE <<>>
\* log_error(message)
log_error(msg, arg) == <<Line("ERROR", msg, arg)>>
\* log_info(message)
log_info(msg, arg) == <<Line("INFO", msg, arg)>>
\* traceback.print_exc(), and the interpreter's report of an uncaught exception
print_exc(e) == <<Line("traceback", "Traceback (most recent call last):", e)>>
\* what parser.error() writes: the usage and the message
usage_error == <<Line("argparse", "usage: ... error: ...", <<>>)>>

\* the help of the parser (shortened)
HelpText == <<"u", "s", "a", "g", "e", ":", " ", ".", ".", ".", "\n">>

\* ------------------------------------------------------ the environment
EnvValues == {None, Some("1"), Some("true")}
\* os.environ.get(name, default), for the variable read at line 41
EnvGet(e, default) == IF e = None THEN default ELSE e[1]

\* DEBUG = os.environ.get("OPEN_AGENT_DEBUG", "0") == "1"
InitialDebug(e) == EnvGet(e, "0") = "1"

\* the content of the file --output names, when there is one before the run
OldData == <<"o", "l", "d">>
\* the files the read of Spec may find
SampleFiles == { <<>>,
                 <<97, 32, 97, 10, 97, 97, 10>>,
                 <<97, 13, 10, 97>>,
                 <<97, 195, 169, 12, 97>>,
                 <<97, 169>> }
\* the files the read of SpecAnalyze may find
BoundedFiles == SeqsUpTo(Bytes, MaxLen)
BoundedPaths == SeqsUpTo({"a", "\n"}, MaxPath) \ {<<>>}

OSErrorRead == <<"OSError", "read">>
OSErrorStat == <<"OSError", "stat">>
OSErrorOpen == <<"OSError", "open for writing">>
OSErrorWrite == <<"OSError", "write">>
UnicodeDecodeError == <<"UnicodeDecodeError", "'utf-8' codec can't decode">>

Init ==
    /\ argv \in ArgLists
    /\ env \in EnvValues
    /\ DEBUG = InitialDebug(env)
    /\ pc = "parse"
    /\ args = DefaultNamespace
    /\ exists = "?"
    /\ is_file = "?"
    /\ result = <<>>
    /\ output = <<>>
    /\ exc = None
    /\ stdout = <<>>
    /\ stderr = <<>>
    /\ outFile \in {None, Some(OldData)}
    /\ outFile0 = outFile
    /\ fileRead = None
    /\ io = <<>>
    /\ status = "running"
    /\ exitCode = 0

\* the end of main: how is "returned", "SystemExit" or "raised"
Ends(how, code) ==
    /\ pc' = "exit"
    /\ status' = how
    /\ exitCode' = code

\* line 158: args = parser.parse_args()
ParseArgs ==
    /\ pc = "parse"
    /\ LET r == parse_args(argv) IN
        \/ /\ r.kind = "ok"
           /\ args' = r.ns
           /\ pc' = "verbose"
           /\ UNCHANGED <<stdout, stderr, status, exitCode>>
        \/ /\ r.kind = "help"
           /\ stdout' = stdout \o HelpText
           /\ Ends("SystemExit", r.code)
           /\ UNCHANGED <<args, stderr>>
        \/ /\ r.kind = "error"
           /\ stderr' = stderr \o usage_error
           /\ Ends("SystemExit", r.code)
           /\ UNCHANGED <<args, stdout>>
    /\ UNCHANGED <<argv, env, DEBUG, exists, is_file, result, output, exc, outFile, outFile0, fileRead, io>>

\* a plain assignment of the flag, in place of the escalation
EnableDebugAssign(debug, verbose) == verbose

\* the value of DEBUG after lines 161-163
EnableDebug(debug, verbose) == IF verbose THEN TRUE ELSE debug

\* lines 160-163: if args.verbose: DEBUG = True
SetDebug ==
    /\ pc = "verbose"
    /\ DEBUG' = EnableDebug(DEBUG, args.verbose)
    /\ pc' = "exists"
    /\ UNCHANGED <<argv, env, args, exists, is_file, result, output, exc,
                   stdout, stderr, outFile, outFile0, fileRead, io, status, exitCode>>

\* the exit code main returns from its except clause
ProcessingErrorCode == 3
\* the codes of the two validation failures, confused with another code
NotAFileCodeSwapped == ProcessingErrorCode
\* the exit code main returns when the input path is not a regular file
NotAFileCode == 1
NotFoundCodeSwapped == NotAFileCode
\* the exit code main returns when the input path does not exist
NotFoundCode == 2

\* lines 166-168: if not args.input_file.exists(): ... return 2
\* (stat fails with an error exists() does not swallow: the exception leaves main)
CheckExists ==
    /\ pc = "exists"
    /\ \E e \in {"yes", "no", "raised"} :
        /\ exists' = e
        /\ \/ /\ e = "yes"
              /\ pc' = "is_file"
              /\ UNCHANGED <<stderr, status, exitCode>>
           \/ /\ e = "no"
              /\ stderr' = stderr \o log_error("Input file not found: ", args.input_file[1])
              /\ Ends("returned", NotFoundCode)
           \/ /\ e = "raised"
              /\ stderr' = stderr \o print_exc(OSErrorStat)
              /\ Ends("raised", 1)
    /\ UNCHANGED <<argv, env, DEBUG, args, is_file, result, output, exc, stdout, outFile, outFile0, fileRead, io>>

\* lines 170-172: if not args.input_file.is_file(): ... return 1
CheckIsFile ==
    /\ pc = "is_file"
    /\ \E f \in {"yes", "no"} :
        /\ is_file' = f
        /\ \/ /\ f = "yes"
              /\ pc' = "log"
              /\ UNCHANGED <<stderr, status, exitCode>>
           \/ /\ f = "no"
              /\ stderr' = stderr \o log_error("Not a file: ", args.input_file[1])
              /\ Ends("returned", NotAFileCode)
    /\ UNCHANGED <<argv, env, DEBUG, args, exists, result, output, exc, stdout, outFile, outFile0, fileRead, io>>

\* line 174: log_info(f"Processing {args.input_file}...")
LogProcessing ==
    /\ pc = "log"
    /\ stderr' = stderr \o log_info("Processing ...", args.input_file[1])
    /\ pc' = "process"
    /\ UNCHANGED <<argv, env, DEBUG, args, exists, is_file, result, output, exc,
                   stdout, outFile, outFile0, fileRead, io, status, exitCode>>

\* line 178, process_file(args.input_file) as a whole (lines 95-113): the read
\* fails, or finds one of the files
ProcessFileOf(files) ==
    /\ pc = "process"
    /\ io' = Append(io, "read")
    /\ \/ /\ exc' = Some(OSErrorRead)
          /\ stderr' = stderr \o log_debug(DEBUG, "Processing file: ", args.input_file[1])
          /\ pc' = "except"
          /\ UNCHANGED <<result, fileRead>>
       \/ \E bs \in files :
            LET content == ReadText(bs) IN
            /\ fileRead' = Some(bs)
            /\ IF content.ok
               THEN /\ result' = AnalysisResult(args.input_file[1], content.text)
                    /\ stderr' = stderr \o log_debug(DEBUG, "Processing file: ", args.input_file[1])
                                        \o log_debug(DEBUG, "Processing complete: ", <<"{result}">>)
                    /\ pc' = "format"
                    /\ UNCHANGED exc
               ELSE /\ exc' = Some(UnicodeDecodeError)
                    /\ stderr' = stderr \o log_debug(DEBUG, "Processing file: ", args.input_file[1])
                    /\ pc' = "except"
                    /\ UNCHANGED result
    /\ UNCHANGED <<argv, env, DEBUG, args, exists, is_file, output, stdout, outFile,
                   outFile0, status, exitCode>>

ProcessFile == ProcessFileOf(SampleFiles)

\* the text lines 181-184 render
Render(format, data) == IF format = WordJson THEN output_json(data) ELSE output_text(data)

\* lines 181-184: output = output_json(result) or output_text(result)
FormatOutput ==
    /\ pc = "format"
    /\ output' = Render(args.format, result)
    /\ io' = Append(io, "render")
    /\ pc' = "write"
    /\ UNCHANGED <<argv, env, DEBUG, args, exists, is_file, result, exc, stdout, stderr,
                   outFile, outFile0, fileRead, status, exitCode>>

\* the output path ignored
DestinationStdout(a) == "stdout"

\* line 187, if args.output: where the text goes
Destination(a) == IF a.output # None THEN "file" ELSE "stdout"

\* lines 187-193: args.output.write_text(output), or print(output); return 0
WriteOutput ==
    /\ pc = "write"
    /\ IF Destination(args) = "file"
       THEN /\ io' = Append(io, "write file")
            /\ \/ /\ outFile' = Some(output)
                  /\ stderr' = stderr \o log_info("Output written to ", args.output[1])
                  /\ Ends("returned", 0)
                  /\ UNCHANGED exc
               \/ /\ exc' = Some(OSErrorOpen)        \* the file is not opened
                  /\ pc' = "except"
                  /\ UNCHANGED <<outFile, stderr, status, exitCode>>
               \/ /\ exc' = Some(OSErrorWrite)       \* opened, hence truncated
                  /\ outFile' = Some(<<>>)
                  /\ pc' = "except"
                  /\ UNCHANGED <<stderr, status, exitCode>>
            /\ UNCHANGED stdout
       ELSE /\ io' = Append(io, "write stdout")
            /\ \/ /\ stdout' = stdout \o output \o <<"\n">>
                  /\ Ends("returned", 0)
                  /\ UNCHANGED exc
               \/ /\ exc' = Some(OSErrorWrite)
                  /\ pc' = "except"
                  /\ UNCHANGED <<stdout, status, exitCode>>
            /\ UNCHANGED <<outFile, stderr>>
    /\ UNCHANGED <<argv, env, DEBUG, args, exists, is_file, result, output, outFile0, fileRead>>

\* the except clause without its log_error
ErrorReportSilent(debug, e) == IF debug THEN print_exc(e) ELSE <<>>
\* the except clause without its traceback
ErrorReportNoTrace(debug, e) == log_error("Processing error: ", e)

\* what the except clause adds to the error stream
ErrorReport(debug, e) ==
    log_error("Processing error: ", e) \o (IF debug THEN print_exc(e) ELSE <<>>)

\* lines 195-200: log_error, the traceback when DEBUG, return 3
HandleError ==
    /\ pc = "except"
    /\ stderr' = stderr \o ErrorReport(DEBUG, exc[1])
    /\ Ends("returned", ProcessingErrorCode)
    /\ UNCHANGED <<argv, env, DEBUG, args, exists, is_file, result, output, exc,
                   stdout, outFile, outFile0, fileRead, io>>

Next ==
    \/ ParseArgs
    \/ SetDebug
    \/ CheckExists
    \/ CheckIsFile
    \/ LogProcessing
    \/ ProcessFile
    \/ FormatOutput
    \/ WriteOutput
    \/ HandleError

Spec == Init /\ [][Next]_vars

\* ---------------------------------------------------------------------
\* The try block of main (lines 176-200) for every input path and every
\* file within the bounds: the state is the one after line 174.
InitAnalyze ==
    /\ argv = <<>>
    /\ env = None
    /\ DEBUG = InitialDebug(env)
    /\ pc = "process"
    /\ \E path \in BoundedPaths, format \in FormatChoices :
        args = [DefaultNamespace EXCEPT !.input_file = Some(path), !.format = format]
    /\ exists = "yes"
    /\ is_file = "yes"
    /\ result = <<>>
    /\ output = <<>>
    /\ exc = None
    /\ stdout = <<>>
    /\ stderr = log_info("Processing ...", args.input_file[1])
    /\ outFile = None
    /\ outFile0 = outFile
    /\ fileRead = None
    /\ io = <<>>
    /\ status = "running"
    /\ exitCode = 0

AnalyzeFile == ProcessFileOf(BoundedFiles \cup SampleFiles)

NextAnalyze ==
    \/ AnalyzeFile
    \/ FormatOutput
    \/ WriteOutput
    \/ HandleError

SpecAnalyze == InitAnalyze /\ [][NextAnalyze]_vars

\* =====================================================================
\* The properties
\* =====================================================================
HasLine(level, msg) == \E i \in DOMAIN stderr : stderr[i].level = level /\ stderr[i].msg = msg
Ended == pc = "exit"
Wrote == \E i \in DOMAIN io : io[i] \in {"write file", "write stdout"}

\* C1: an invocation with malformed arguments (no input_file, an unknown
\* flag, a --format that is neither json nor text) ends with exit code 1,
\* before any read of a file.
C1_MalformedArgumentsExitOne ==
    (Ended /\ parse_args(argv).kind = "error") => (exitCode = 1 /\ io = <<>>)

\* C2: when the input path does not exist, main returns 2, and nothing is
\* written: standard output stays empty and the output file is as it was
\* before the run, whatever the format and the verbose flag.
C2_MissingInputReturnsTwo ==
    (Ended /\ exists = "no") =>
        /\ status = "returned"
        /\ exitCode = 2
        /\ stdout = <<>>
        /\ outFile = outFile0
        /\ io = <<>>

C2_Witness ==
    Ended /\ exists = "no" /\ args.output # None /\ outFile0 # None /\ args.verbose

\* C3: when the input path exists and is not a regular file, main logs an
\* error and returns 1, having read nothing and written nothing.
C3_NotAFileReturnsOne ==
    (Ended /\ is_file = "no") =>
        /\ status = "returned"
        /\ exitCode = 1
        /\ stderr = <<Line("ERROR", "Not a file: ", args.input_file[1])>>
        /\ stdout = <<>>
        /\ outFile = outFile0
        /\ io = <<>>

C3_Witness ==
    Ended /\ is_file = "no" /\ args.format = WordText

\* C4: past the parsing and the validation, a failure of the read, the
\* decoding or the write ends the invocation with exit code 3, with an
\* [ERROR] line naming the cause on the error stream; exit code 0 is returned
\* only when the read, the rendering and the write all succeeded.
C4_ProcessingErrorsReturnThree ==
    (Ended /\ is_file = "yes") =>
        /\ status = "returned"
        /\ exitCode \in {0, 3}
        /\ exc # None =>
            /\ exitCode = 3
            /\ \E i \in DOMAIN stderr :
                stderr[i] = Line("ERROR", "Processing error: ", exc[1])
        /\ exitCode = 0 =>
            /\ exc = None
            /\ fileRead # None /\ Utf8Decode(fileRead[1]).ok
            /\ output # <<>>
            /\ Len(io) = 3 /\ io[1] = "read" /\ io[2] = "render"
            /\ IF args.output # None THEN outFile = Some(output)
               ELSE stdout = output \o <<"\n">>

C4_Witness ==
    Ended /\ is_file = "yes" /\ exc = Some(UnicodeDecodeError) /\ exitCode = 3

\* C5: main always returns, with one of the codes 0, 1, 2, 3: no failure
\* leaves it as an exception.
C5_MainAlwaysReturns ==
    Ended => (status = "returned" /\ exitCode \in 0..3)

\* C6: DEBUG starts as (OPEN_AGENT_DEBUG = "1"), no step takes it from true
\* to false, and once the arguments are parsed it is (OPEN_AGENT_DEBUG = "1"
\* or verbose) for the rest of the process.
C6_DebugFlag ==
    IF pc \in {"parse", "verbose"} THEN DEBUG = (env = Some("1"))
    ELSE DEBUG = (env = Some("1") \/ args.verbose)

C6_DebugMonotone ==
    /\ DEBUG = (env = Some("1"))
    /\ [][(DEBUG => DEBUG') /\ C6_DebugFlag']_vars

C6_Witness ==
    Ended /\ env # Some("1") /\ DEBUG /\ status = "returned"

\* C7 as claimed: after a processing error, with verbose the error stream has
\* a traceback besides the [ERROR] line; without verbose it has the [ERROR]
\* line and nothing else.
C7_OnlyErrorLineWithoutVerbose ==
    (Ended /\ exc # None) =>
        IF args.verbose
        THEN HasLine("ERROR", "Processing error: ")
             /\ HasLine("traceback", "Traceback (most recent call last):")
        ELSE stderr = log_error("Processing error: ", exc[1])

\* C7 as amended: after a processing error, when the debug flag is on (by
\* verbose or by OPEN_AGENT_DEBUG=1) the error stream ends with the [ERROR]
\* line and the traceback, after the [INFO] line and the [DEBUG] line of the
\* read; when it is off, the error stream is the [INFO] Processing line and
\* the [ERROR] line, with no traceback and no [DEBUG] line.
C7_TraceIffDebug ==
    (Ended /\ exc # None) =>
        LET info == Line("INFO", "Processing ...", args.input_file[1])
            err == Line("ERROR", "Processing error: ", exc[1])
            trace == Line("traceback", "Traceback (most recent call last):", exc[1])
            n == Len(stderr)
        IN  IF args.verbose \/ env = Some("1")
            THEN /\ n >= 4
                 /\ stderr[1] = info
                 /\ stderr[2].level = "DEBUG"
                 /\ stderr[n - 1] = err
                 /\ stderr[n] = trace
            ELSE stderr = <<info, err>>

C7_Witness ==
    /\ Ended /\ exc # None /\ args.verbose /\ env = None
    /\ HasLine("traceback", "Traceback (most recent call last):")

RECURSIVE ClaimedLines(_, _)
\* the number of segments of t that "\n", "\r\n" and "\r" delimit; open is
\* TRUE inside a segment that has no separator yet
ClaimedLines(t, open) ==
    IF t = <<>> THEN (IF open THEN 1 ELSE 0)
    ELSE IF t[1] = 13 /\ Len(t) >= 2 /\ t[2] = 10 THEN 1 + ClaimedLines(Tail(Tail(t)), FALSE)
    ELSE IF t[1] \in {10, 13} THEN 1 + ClaimedLines(Tail(t), FALSE)
    ELSE ClaimedLines(Tail(t), TRUE)

\* the number of maximal runs of non-whitespace characters of t
ClaimedWords(t) ==
    Cardinality({i \in DOMAIN t : t[i] \notin Whitespace /\ (i = 1 \/ t[i - 1] \in Whitespace)})

\* C8: of every decodable file, process_file returns lines = the number of
\* segments "\n", "\r\n" and "\r" delimit, words = the number of runs of
\* non-whitespace, characters = the length of the decoded content, and
\* status "success"; "a b\ncd\n" gives 2, 3 and 7.
C8_CountsOfDecodedContent ==
    result # <<>> =>
        LET decoded == Utf8Decode(fileRead[1]).text IN
        /\ Get(result, KeyLines).n = ClaimedLines(decoded, FALSE)
        /\ Get(result, KeyWords).n = ClaimedWords(decoded)
        /\ Get(result, KeyCharacters).n = Len(decoded)
        /\ Get(result, KeyStatus).s = Success
        /\ fileRead[1] = <<97, 32, 97, 10, 97, 97, 10>> =>
            /\ Get(result, KeyLines).n = 2
            /\ Get(result, KeyWords).n = 3
            /\ Get(result, KeyCharacters).n = 7

RECURSIVE SplitOn(_, _, _)
\* s.split(sep) for a one-character sep; cur is the piece being read
SplitOn(s, sep, cur) ==
    IF s = <<>> THEN <<cur>>
    ELSE IF s[1] = sep THEN <<cur>> \o SplitOn(Tail(s), sep, <<>>)
    ELSE SplitOn(Tail(s), sep, Append(cur, s[1]))

StartsWith(s, prefix) ==
    Len(s) >= Len(prefix) /\ SubSeq(s, 1, Len(prefix)) = prefix

\* C9: the text rendering of a result of process_file has exactly 6 lines,
\* "file: ", "lines: ", "words: ", "characters: ", "encoding: ", "status: "
\* in this order, and no newline after the last.
C9_TextOutputHasSixLines ==
    (output # <<>> /\ args.format = WordText) =>
        LET ls == SplitOn(output, "\n", <<>>)
            keys == <<KeyFile, KeyLines, KeyWords, KeyCharacters, KeyEncoding, KeyStatus>>
        IN  /\ Len(ls) = 6
            /\ \A i \in 1..6 : StartsWith(ls[i], keys[i] \o <<":", " ">>)
            /\ output[Len(output)] # "\n"

\* C10: an invocation reads the input file at most once and writes at most
\* once, after the read and the rendering, to one destination: the output
\* path when there is one (the [INFO] confirmation is logged only once the
\* write has succeeded), standard output otherwise, never both.
C10_OneReadOneWrite ==
    LET write == IF args.output # None THEN "write file" ELSE "write stdout"
        confirmed == HasLine("INFO", "Output written to ")
    IN  /\ \E n \in 0..3 : io = SubSeq(<<"read", "render", write>>, 1, n)
        /\ args.output # None => stdout = <<>>
        /\ args.output = None => outFile = outFile0 /\ ~confirmed
        /\ ~Wrote => outFile = outFile0 /\ stdout \in {<<>>, HelpText}
        /\ confirmed => Wrote /\ exc = None /\ outFile = Some(output) /\ Ended
        /\ (Wrote /\ args.output # None /\ exc = None) => confirmed
        /\ (Wrote /\ args.output = None /\ exc = None) => stdout = output \o <<"\n">>

C10_Witness ==
    /\ Ended /\ exitCode = 0 /\ io = <<"read", "render", "write file">>
    /\ outFile0 = Some(OldData) /\ outFile = Some(output)
    /\ HasLine("INFO", "Output written to ")

====
